---- MODULE Spec2Model ----
(***************************************************************************)
(* A model of backend/app.py: the users / posts / likes store (SQLite),    *)
(* the session cookie of each browser, and the request handlers register,  *)
(* toggle_like and delete_post, each split at the points where the handler *)
(* issues a separate SQL statement outside any transaction, so that        *)
(* concurrent requests interleave exactly where the code lets them.        *)
(***************************************************************************)
EXTENDS Naturals, Integers, Sequences, FiniteSets, TLC

\* ------------------------------------------------------------------ bounds
\* Cap on likes.id (AUTOINCREMENT): no toggle_like starts once it could pass it.
MaxLikeId == 3
\* Cap on users.id (AUTOINCREMENT): no register starts once it could pass it.
MaxUserId == 3

\* The browsers (each holds one session cookie and has at most one request
\* in flight).
Clients == {"c1", "c2"}
\* The application processes that run create_app.
Apps == {"w1", "w2"}

\* ------------------------------------------------------------------ text
\* Text is a sequence of one-character strings.
Whitespace == {" "}

RECURSIVE lstrip(_)
lstrip(s) ==
  IF s # <<>> /\ Head(s) \in Whitespace THEN lstrip(Tail(s)) ELSE s

RECURSIVE rstrip(_)
rstrip(s) ==
  IF s # <<>> /\ s[Len(s)] \in Whitespace
  THEN rstrip(SubSeq(s, 1, Len(s) - 1))
  ELSE s

\* str.strip()
strip(s) == rstrip(lstrip(s))

\* -------------------------------------------------------------- file names
\* str.lower(), on the letters the file names here are written with.
lower_char(ch) ==
  CASE ch = "P" -> "p" [] ch = "N" -> "n" [] ch = "G" -> "g" [] OTHER -> ch

lower(s) == [i \in 1..Len(s) |-> lower_char(s[i])]

\* app.config["ALLOWED_EXTENSIONS"]
ALLOWED_EXTENSIONS ==
  {<<"p", "n", "g">>, <<"j", "p", "g">>, <<"j", "p", "e", "g">>,
   <<"g", "i", "f">>, <<"w", "e", "b", "p">>}

\* filename.rsplit(".", 1)[1], for a filename with a "." in it
rsplit_last(filename) ==
  LET dot == CHOOSE i \in 1..Len(filename) :
                /\ filename[i] = "."
                /\ \A j \in (i + 1)..Len(filename) : filename[j] # "."
  IN SubSeq(filename, dot + 1, Len(filename))

\* allowed_file asking only that the name end with an allowed extension.
allowed_file_noDot(filename) ==
  \E ext \in ALLOWED_EXTENSIONS :
     /\ Len(filename) >= Len(ext)
     /\ lower(SubSeq(filename, Len(filename) - Len(ext) + 1, Len(filename))) = ext

\* allowed_file
allowed_file(filename) ==
  /\ \E i \in 1..Len(filename) : filename[i] = "."
  /\ lower(rsplit_last(filename)) \in ALLOWED_EXTENSIONS

RECURSIVE lstrip_chars(_, _)
lstrip_chars(s, chars) ==
  IF s # <<>> /\ Head(s) \in chars THEN lstrip_chars(Tail(s), chars) ELSE s

RECURSIVE rstrip_chars(_, _)
rstrip_chars(s, chars) ==
  IF s # <<>> /\ s[Len(s)] \in chars
  THEN rstrip_chars(SubSeq(s, 1, Len(s) - 1), chars)
  ELSE s

\* "_".join(s.split()), for s without whitespace at its ends
RECURSIVE join_split(_)
join_split(s) ==
  IF s = <<>> THEN <<>>
  ELSE IF Head(s) \in Whitespace THEN <<"_">> \o join_split(lstrip(s))
  ELSE <<Head(s)>> \o join_split(Tail(s))

\* The characters of [A-Za-z0-9_.-] that the file names here are written with.
SafeChars == {"a", "e", "x", "p", "n", "g", "P", "N", "G", "_", ".", "-"}

IsSafeChar(ch) == ch \in SafeChars

\* werkzeug secure_filename: path separators become spaces, runs of
\* whitespace become "_", the characters outside [A-Za-z0-9_.-] go, and
\* "." and "_" are stripped from both ends.
secure_filename(filename) ==
  LET spaced == [i \in 1..Len(filename) |->
                   IF filename[i] = "/" THEN " " ELSE filename[i]]
      joined == join_split(strip(spaced))
      ascii == SelectSeq(joined, IsSafeChar)
  IN rstrip_chars(lstrip_chars(ascii, {".", "_"}), {".", "_"})

\* f"{timestamp}_{filename}"; the timestamp, strftime("%Y%m%d%H%M%S%f") of an
\* instant, is twenty digits, here the one number of the instant.
stored_filename(timestamp, filename) == <<timestamp, "_">> \o filename

\* ------------------------------------------------------------------ time
\* An instant is a count of microseconds; the model's second has this many.
MicrosPerSecond == 2

\* The readings of the clock (datetime.now(timezone.utc)): one second and the
\* start of the next.
Instants == 0..MicrosPerSecond

CharCode(ch) == CASE ch = "+" -> 43 [] ch = "." -> 46

\* datetime.isoformat() of a UTC instant, as the text stored in created_at:
\* the date and time to the second (fixed width, here one number), then
\* "." and the six digits of the microsecond (here one number) unless the
\* microsecond is 0, then "+00:00".
isoformat(t) ==
  LET second == t \div MicrosPerSecond
      microsecond == t % MicrosPerSecond
  IN IF microsecond = 0
     THEN <<second, CharCode("+")>>
     ELSE <<second, CharCode("."), microsecond, CharCode("+")>>

\* SQLite's comparison of two TEXT values (BINARY collation): a < b.
RECURSIVE TextLess(_, _)
TextLess(a, b) ==
  IF b = <<>> THEN FALSE
  ELSE IF a = <<>> THEN TRUE
  ELSE IF Head(a) # Head(b) THEN Head(a) < Head(b)
  ELSE TextLess(Tail(a), Tail(b))

\* ------------------------------------------------------- password hashing
Salts == {"s1", "s2"}

\* werkzeug generate_password_hash with the salt it drew
generate_password_hash(password, salt) ==
  [salt |-> salt, digest |-> <<salt, password>>]

check_password_hash(pwhash, password) ==
  pwhash.digest = <<pwhash.salt, password>>

\* ------------------------------------------------------------------ state
VARIABLES
  users,    \* rows of table users: [id, username, password_hash, is_admin]
  posts,    \* rows of table posts: [id, user_id, image_path, caption, created_at]
  likes,    \* rows of table likes: [id, user_id, post_id]
  seq,      \* sqlite_sequence: the last AUTOINCREMENT id of each table
  media,    \* the file names in the upload folder
  session,  \* the session cookie of each client
  req,      \* the request each client has in flight (or its response)
  app,      \* where each application process is in create_app
  obs       \* history: what a specification keeps of the requests so far

vars == <<users, posts, likes, seq, media, session, req, app, obs>>

ADMIN_USERNAME == <<"a", "d", "m", "i", "n">>
ADMIN_PASSWORD == <<"a", "d", "m", "i", "n", "p", "a", "s", "s">>

NoSession == [user_id |-> 0, username |-> <<>>, is_admin |-> FALSE]

\* A client with no request in flight.
Idle ==
  [op |-> "idle", pc |-> "idle", post_id |-> 0, image_path |-> <<>>,
   liked |-> FALSE, username |-> <<>>, password |-> <<>>, caption |-> <<>>,
   sort |-> "", raw_posts |-> <<>>, posts |-> <<>>, outcome |-> ""]

\* The response of a finished request.
Done(op, outcome) == [Idle EXCEPT !.op = op, !.pc = "done", !.outcome = outcome]

\* The response of a finished request about a post.
DoneOn(op, outcome, post_id) == [Done(op, outcome) EXCEPT !.post_id = post_id]

InFlight(c) == req[c].pc \notin {"idle", "done"}

\* Some process has finished create_app and serves requests.
Serving == \E w \in Apps : app[w] = "serving"

\* ------------------------------------------------------------ the queries
\* "user_id" in session
LoggedIn(c) == session[c].user_id # 0

\* fetch_post_by_id: posts JOIN users ... WHERE posts.id = ? GROUP BY posts.id;
\* no row (None) when the post or its owner's row is missing.
fetch_post_by_id(post_id) ==
  {p \in posts : p.id = post_id /\ \E u \in users : u.id = p.user_id}

LikesOf(post_id) == {l \in likes : l.post_id = post_id}

\* user_has_liked
user_has_liked(user_id, post_id) ==
  \E l \in likes : l.user_id = user_id /\ l.post_id = post_id

\* user_exists
user_exists(username) == \E u \in users : u.username = username

\* fetch_user_by_username
fetch_user_by_username(username) == {u \in users : u.username = username}

\* The rows fetch_posts and fetch_post_by_id select: a post joined with its
\* owner's username and COUNT(likes.id) over the LEFT JOIN.
PostView(p) ==
  [id |-> p.id, image_path |-> p.image_path, caption |-> p.caption,
   created_at |-> p.created_at,
   username |-> (CHOOSE u \in users : u.id = p.user_id).username,
   like_count |-> Cardinality(LikesOf(p.id))]

PostViews == {PostView(p) : p \in {q \in posts : \E u \in users : u.id = q.user_id}}

\* order_map with "likes" breaking ties by posts.created_at ASC.
OrderedBefore_tieAscending(sort, a, b) ==
  IF sort = "likes"
  THEN \/ a.like_count > b.like_count
       \/ /\ a.like_count = b.like_count
          /\ TextLess(isoformat(a.created_at), isoformat(b.created_at))
  ELSE TextLess(isoformat(b.created_at), isoformat(a.created_at))

\* order_map: whether the ORDER BY clause puts row a strictly before row b
\* (created_at is compared as the text the column holds).  An unknown sort
\* falls back to "recent" (order_map.get(sort, order_map["recent"])).
OrderedBefore(sort, a, b) ==
  IF sort = "likes"
  THEN \/ a.like_count > b.like_count
       \/ /\ a.like_count = b.like_count
          /\ TextLess(isoformat(b.created_at), isoformat(a.created_at))
  ELSE TextLess(isoformat(b.created_at), isoformat(a.created_at))

\* fetch_posts: every sequence the SELECT may return (rows that compare equal
\* under the ORDER BY come in an order SQLite does not promise).
fetch_posts(sort) ==
  LET n == Cardinality(PostViews)
  IN {s \in [1..n -> PostViews] :
        /\ \A i, j \in 1..n : i # j => s[i] # s[j]
        /\ \A i, j \in 1..n : i < j => ~OrderedBefore(sort, s[j], s[i])}

\* ------------------------------------------------------------- the writes
\* Each write gives the table after the statement and whether the statement
\* raised sqlite3.IntegrityError (nothing in app.py catches it).

\* add_like had the likes table no UNIQUE (user_id, post_id).
add_like_noUnique(user_id, post_id) ==
  [rows |-> likes \cup {[id |-> seq.likes + 1, user_id |-> user_id,
                         post_id |-> post_id]},
   error |-> FALSE]

\* add_like with a plain INSERT in place of INSERT OR IGNORE.
add_like_plainInsert(user_id, post_id) ==
  IF \E l \in likes : l.user_id = user_id /\ l.post_id = post_id
  THEN [rows |-> likes, error |-> TRUE]
  ELSE [rows |-> likes \cup {[id |-> seq.likes + 1, user_id |-> user_id,
                              post_id |-> post_id]},
        error |-> FALSE]

\* add_like: INSERT OR IGNORE under UNIQUE (user_id, post_id): a row that
\* would repeat the pair is dropped without an error.  The foreign keys of
\* likes are declared, and SQLite enforces none without PRAGMA foreign_keys,
\* which app.py never issues.  (likes.created_at is written and never read;
\* it is left out of the rows.)
add_like(user_id, post_id) ==
  IF \E l \in likes : l.user_id = user_id /\ l.post_id = post_id
  THEN [rows |-> likes, error |-> FALSE]
  ELSE [rows |-> likes \cup {[id |-> seq.likes + 1, user_id |-> user_id,
                              post_id |-> post_id]},
        error |-> FALSE]

\* remove_like with the post_id condition left out of the WHERE.
remove_like_anyPost(user_id, post_id) ==
  [rows |-> {l \in likes : l.user_id # user_id}, error |-> FALSE]

\* remove_like with the user_id condition left out of the WHERE.
remove_like_anyUser(user_id, post_id) ==
  [rows |-> {l \in likes : l.post_id # post_id}, error |-> FALSE]

\* remove_like: DELETE FROM likes WHERE user_id = ? AND post_id = ?
remove_like(user_id, post_id) ==
  [rows |-> {l \in likes : ~(l.user_id = user_id /\ l.post_id = post_id)},
   error |-> FALSE]

\* create_user had the username column no UNIQUE.
create_user_noUnique(username, password_hash) ==
  [rows |-> users \cup {[id |-> seq.users + 1, username |-> username,
                         password_hash |-> password_hash, is_admin |-> FALSE]},
   error |-> FALSE]

\* create_user: INSERT INTO users (username, password_hash) under
\* username UNIQUE; is_admin takes its DEFAULT 0.
create_user(username, password_hash) ==
  IF \E u \in users : u.username = username
  THEN [rows |-> users, error |-> TRUE]
  ELSE [rows |-> users \cup {[id |-> seq.users + 1, username |-> username,
                              password_hash |-> password_hash,
                              is_admin |-> FALSE]},
        error |-> FALSE]

\* ensure_admin_exists had the username column no UNIQUE.
insert_admin_noUnique(password_hash) ==
  [rows |-> users \cup {[id |-> seq.users + 1, username |-> ADMIN_USERNAME,
                         password_hash |-> password_hash, is_admin |-> TRUE]},
   error |-> FALSE]

\* ensure_admin_exists, the INSERT: the default admin row, under username UNIQUE.
insert_admin(password_hash) ==
  IF \E u \in users : u.username = ADMIN_USERNAME
  THEN [rows |-> users, error |-> TRUE]
  ELSE [rows |-> users \cup {[id |-> seq.users + 1, username |-> ADMIN_USERNAME,
                              password_hash |-> password_hash,
                              is_admin |-> TRUE]},
        error |-> FALSE]

\* remove_post without its first DELETE.
remove_post_likes_kept(post_id) == likes

\* remove_post, first statement: DELETE FROM likes WHERE post_id = ?
remove_post_likes(post_id) == {l \in likes : l.post_id # post_id}

\* remove_post without its second DELETE.
remove_post_posts_kept(post_id) == posts

\* remove_post, second statement: DELETE FROM posts WHERE id = ?
remove_post_posts(post_id) == {p \in posts : p.id # post_id}

\* AUTOINCREMENT: sqlite_sequence moves only when a row was inserted.
Bump(table, before, after) ==
  [seq EXCEPT ![table] = IF after \subseteq before THEN @ ELSE @ + 1]

\* ------------------------------------------------------------ toggle_like
ToggleLikesInFlight == {c \in Clients : req[c].op = "toggle_like" /\ InFlight(c)}

\* POST /like/<post_id>: login_required, then fetch_post_by_id (lines 210-216)
ToggleLikeStart(c, post_id) ==
  /\ Serving
  /\ req[c].pc = "idle"
  /\ IF ~LoggedIn(c)
     THEN req' = [req EXCEPT ![c] = DoneOn("toggle_like", "LoginRequired", post_id)]
     ELSE IF fetch_post_by_id(post_id) = {}
     THEN req' = [req EXCEPT ![c] = DoneOn("toggle_like", "NotFound", post_id)]
     ELSE /\ seq.likes + Cardinality(ToggleLikesInFlight) < MaxLikeId
          /\ req' = [req EXCEPT ![c] =
                       [Idle EXCEPT !.op = "toggle_like", !.pc = "has_liked",
                                    !.post_id = post_id]]
  /\ UNCHANGED <<users, posts, likes, seq, media, session, app>>

\* user_has_liked(g.db, user_id, post_id) (lines 218-219)
ToggleLikeRead(c) ==
  /\ req[c].op = "toggle_like" /\ req[c].pc = "has_liked"
  /\ req' = [req EXCEPT ![c].pc = "write",
                        ![c].liked = user_has_liked(session[c].user_id, req[c].post_id)]
  /\ UNCHANGED <<users, posts, likes, seq, media, session, app>>

\* remove_like or add_like, then the redirect (lines 219-224)
ToggleLikeWrite(c) ==
  /\ req[c].op = "toggle_like" /\ req[c].pc = "write"
  /\ LET r == IF req[c].liked
              THEN remove_like(session[c].user_id, req[c].post_id)
              ELSE add_like(session[c].user_id, req[c].post_id)
     IN /\ likes' = r.rows
        /\ seq' = Bump("likes", likes, r.rows)
        /\ req' = [req EXCEPT ![c] =
                     [DoneOn("toggle_like",
                             IF r.error THEN "ServerError" ELSE "Redirect",
                             req[c].post_id)
                        EXCEPT !.liked = req[c].liked]]
  /\ UNCHANGED <<users, posts, media, session, app>>

\* ------------------------------------------------------------ delete_post
\* delete_post without the admin_required decorator.
DeletePostStart_noAdminCheck(c, post_id) ==
  /\ Serving
  /\ req[c].pc = "idle"
  /\ req' = [req EXCEPT ![c] =
       IF ~LoggedIn(c) THEN DoneOn("delete_post", "LoginRequired", post_id)
       ELSE IF fetch_post_by_id(post_id) = {}
       THEN DoneOn("delete_post", "NotFound", post_id)
       ELSE [Idle EXCEPT !.op = "delete_post", !.pc = "remove",
                         !.post_id = post_id,
                         !.image_path =
                            (CHOOSE p \in fetch_post_by_id(post_id) : TRUE).image_path]]
  /\ UNCHANGED <<users, posts, likes, seq, media, session, app>>

\* POST /delete/<post_id>: login_required, admin_required, fetch_post_by_id
\* (lines 194-202)
DeletePostStart(c, post_id) ==
  /\ Serving
  /\ req[c].pc = "idle"
  /\ req' = [req EXCEPT ![c] =
       IF ~LoggedIn(c) THEN DoneOn("delete_post", "LoginRequired", post_id)
       ELSE IF ~session[c].is_admin THEN DoneOn("delete_post", "Forbidden", post_id)
       ELSE IF fetch_post_by_id(post_id) = {}
       THEN DoneOn("delete_post", "NotFound", post_id)
       ELSE [Idle EXCEPT !.op = "delete_post", !.pc = "remove",
                         !.post_id = post_id,
                         !.image_path =
                            (CHOOSE p \in fetch_post_by_id(post_id) : TRUE).image_path]]
  /\ UNCHANGED <<users, posts, likes, seq, media, session, app>>

\* remove_post: the two DELETEs and the commit (lines 409-412)
DeletePostRemove(c) ==
  /\ req[c].op = "delete_post" /\ req[c].pc = "remove"
  /\ likes' = remove_post_likes(req[c].post_id)
  /\ posts' = remove_post_posts(req[c].post_id)
  /\ req' = [req EXCEPT ![c].pc = "exists"]
  /\ UNCHANGED <<users, seq, media, session, app>>

\* remove_post: os.path.exists (lines 414-416); with no file, the redirect
\* of delete_post (lines 206-207)
DeletePostExists(c) ==
  /\ req[c].op = "delete_post" /\ req[c].pc = "exists"
  /\ req' = [req EXCEPT ![c] =
               IF req[c].image_path \in media
               THEN [@ EXCEPT !.pc = "unlink"]
               ELSE DoneOn("delete_post", "Deleted", req[c].post_id)]
  /\ UNCHANGED <<users, posts, likes, seq, media, session, app>>

\* remove_post: os.remove (line 417), then the redirect (lines 206-207).
\* os.remove raises when the file is gone by now, and may raise for a file
\* that is there (OSError); nothing catches it.
DeletePostUnlink(c) ==
  /\ req[c].op = "delete_post" /\ req[c].pc = "unlink"
  /\ \/ /\ req[c].image_path \in media
        /\ media' = media \ {req[c].image_path}
        /\ req' = [req EXCEPT ![c] = DoneOn("delete_post", "Deleted", req[c].post_id)]
     \/ /\ media' = media
        /\ req' = [req EXCEPT ![c] =
                     DoneOn("delete_post", "ServerError", req[c].post_id)]
  /\ UNCHANGED <<users, posts, likes, seq, session, app>>

\* --------------------------------------------------------------- register
RegistersInFlight == {c \in Clients : req[c].op = "register" /\ InFlight(c)}

\* register without the user_exists check.
RegisterStart_noExistsCheck(c, username_field, password_field) ==
  /\ Serving
  /\ req[c].pc = "idle"
  /\ LET username == strip(username_field)
         password == password_field
     IN IF username = <<>> \/ password = <<>>
        THEN req' = [req EXCEPT ![c] = Done("register", "InvalidInput")]
        ELSE /\ seq.users + Cardinality(RegistersInFlight) < MaxUserId
             /\ req' = [req EXCEPT ![c] =
                          [Idle EXCEPT !.op = "register", !.pc = "create_user",
                                       !.username = username,
                                       !.password = password]]
  /\ UNCHANGED <<users, posts, likes, seq, media, session, app>>

\* register without the .strip() of the username.
RegisterStart_noStrip(c, username_field, password_field) ==
  /\ Serving
  /\ req[c].pc = "idle"
  /\ LET username == username_field
         password == password_field
     IN IF username = <<>> \/ password = <<>>
        THEN req' = [req EXCEPT ![c] = Done("register", "InvalidInput")]
        ELSE IF user_exists(username)
        THEN req' = [req EXCEPT ![c] =
                       [Done("register", "DuplicateUsername")
                          EXCEPT !.username = username]]
        ELSE /\ seq.users + Cardinality(RegistersInFlight) < MaxUserId
             /\ req' = [req EXCEPT ![c] =
                          [Idle EXCEPT !.op = "register", !.pc = "create_user",
                                       !.username = username,
                                       !.password = password]]
  /\ UNCHANGED <<users, posts, likes, seq, media, session, app>>

\* POST /register: strip the username, the two validations, user_exists
\* (lines 111-121)
RegisterStart(c, username_field, password_field) ==
  /\ Serving
  /\ req[c].pc = "idle"
  /\ LET username == strip(username_field)
         password == password_field
     IN IF username = <<>> \/ password = <<>>
        THEN req' = [req EXCEPT ![c] = Done("register", "InvalidInput")]
        ELSE IF user_exists(username)
        THEN req' = [req EXCEPT ![c] =
                       [Done("register", "DuplicateUsername")
                          EXCEPT !.username = username]]
        ELSE /\ seq.users + Cardinality(RegistersInFlight) < MaxUserId
             /\ req' = [req EXCEPT ![c] =
                          [Idle EXCEPT !.op = "register", !.pc = "create_user",
                                       !.username = username,
                                       !.password = password]]
  /\ UNCHANGED <<users, posts, likes, seq, media, session, app>>

\* generate_password_hash, create_user, the redirect to login (lines 123-126)
RegisterInsert(c) ==
  /\ req[c].op = "register" /\ req[c].pc = "create_user"
  /\ \E salt \in Salts :
       LET r == create_user(req[c].username,
                            generate_password_hash(req[c].password, salt))
       IN /\ users' = r.rows
          /\ seq' = Bump("users", users, r.rows)
          /\ req' = [req EXCEPT ![c] =
                       [Done("register", IF r.error THEN "ServerError" ELSE "Registered")
                          EXCEPT !.username = req[c].username]]
  /\ UNCHANGED <<posts, likes, media, session, app>>

\* ------------------------------------------------------------- create_app
\* create_tables (CREATE TABLE IF NOT EXISTS: the rows stay) and the SELECT
\* COUNT(*) of ensure_admin_exists (lines 41-44, 283-285)
CreateAppStart(w) ==
  /\ app[w] = "init"
  /\ app' = [app EXCEPT ![w] =
               IF {u \in users : u.is_admin} = {} THEN "insert_admin" ELSE "serving"]
  /\ UNCHANGED <<users, posts, likes, seq, media, session, req>>

\* ensure_admin_exists: the INSERT and the commit (lines 286-293); an
\* IntegrityError ends create_app.
CreateAppInsert(w) ==
  /\ app[w] = "insert_admin"
  /\ \E salt \in Salts :
       LET r == insert_admin(generate_password_hash(ADMIN_PASSWORD, salt))
       IN /\ users' = r.rows
          /\ seq' = Bump("users", users, r.rows)
          /\ app' = [app EXCEPT ![w] = IF r.error THEN "crashed" ELSE "serving"]
  /\ UNCHANGED <<posts, likes, media, session, req>>

\* ------------------------------------------------------- login and logout
\* login without the .strip() of the username.
Login_noStrip(c, username_field, password_field) ==
  /\ Serving
  /\ req[c].pc = "idle"
  /\ LET username == username_field
         password == password_field
         user == fetch_user_by_username(username)
     IN IF user = {} \/ ~check_password_hash((CHOOSE u \in user : TRUE).password_hash,
                                              password)
        THEN /\ req' = [req EXCEPT ![c] =
                          [Done("login", "InvalidCredentials")
                             EXCEPT !.username = username]]
             /\ session' = session
        ELSE LET u == CHOOSE u \in user : TRUE
             IN /\ session' = [session EXCEPT ![c] =
                                 [NoSession EXCEPT !.user_id = u.id,
                                                   !.username = u.username,
                                                   !.is_admin = u.is_admin]]
                /\ req' = [req EXCEPT ![c] =
                             [Done("login", "LoggedIn") EXCEPT !.username = username]]
  /\ UNCHANGED <<users, posts, likes, seq, media, app>>

\* login that binds the user id and the username and leaves the admin flag
\* of the session as it was.
Login_keepsAdminFlag(c, username_field, password_field) ==
  /\ Serving
  /\ req[c].pc = "idle"
  /\ LET username == strip(username_field)
         password == password_field
         user == fetch_user_by_username(username)
     IN IF user = {} \/ ~check_password_hash((CHOOSE u \in user : TRUE).password_hash,
                                              password)
        THEN /\ req' = [req EXCEPT ![c] =
                          [Done("login", "InvalidCredentials")
                             EXCEPT !.username = username]]
             /\ session' = session
        ELSE LET u == CHOOSE u \in user : TRUE
             IN /\ session' = [session EXCEPT ![c] =
                                 [@ EXCEPT !.user_id = u.id,
                                           !.username = u.username]]
                /\ req' = [req EXCEPT ![c] =
                             [Done("login", "LoggedIn") EXCEPT !.username = username]]
  /\ UNCHANGED <<users, posts, likes, seq, media, app>>

\* POST /login: strip the username, fetch_user_by_username, check_password_hash;
\* then session.clear() and the three keys of the user's row (lines 133-148).
\* The username column is UNIQUE: the SELECT gives one row or none.
Login(c, username_field, password_field) ==
  /\ Serving
  /\ req[c].pc = "idle"
  /\ LET username == strip(username_field)
         password == password_field
         user == fetch_user_by_username(username)
     IN IF user = {} \/ ~check_password_hash((CHOOSE u \in user : TRUE).password_hash,
                                              password)
        THEN /\ req' = [req EXCEPT ![c] =
                          [Done("login", "InvalidCredentials")
                             EXCEPT !.username = username]]
             /\ session' = session
        ELSE LET u == CHOOSE u \in user : TRUE
             IN /\ session' = [session EXCEPT ![c] =
                                 [NoSession EXCEPT !.user_id = u.id,
                                                   !.username = u.username,
                                                   !.is_admin = u.is_admin]]
                /\ req' = [req EXCEPT ![c] =
                             [Done("login", "LoggedIn") EXCEPT !.username = username]]
  /\ UNCHANGED <<users, posts, likes, seq, media, app>>

\* GET /logout: session.clear(), whoever asks (lines 152-157)
Logout(c) ==
  /\ Serving
  /\ req[c].pc = "idle"
  /\ session' = [session EXCEPT ![c] = NoSession]
  /\ req' = [req EXCEPT ![c] = Done("logout", "LoggedOut")]
  /\ UNCHANGED <<users, posts, likes, seq, media, app>>

\* ------------------------------------------------------------ fetch_posts
\* fetch_posts(g.db, sort) called for client c: one SELECT (lines 338-363).
FetchPosts(c, sort) ==
  /\ Serving
  /\ req[c].pc = "idle"
  /\ \E rows \in fetch_posts(sort) :
       req' = [req EXCEPT ![c] =
                 [Done("fetch_posts", "Rows") EXCEPT !.sort = sort,
                                                     !.raw_posts = rows]]
  /\ UNCHANGED <<users, posts, likes, seq, media, session, app>>

\* The client receives the response and may send its next request.
Return(c) ==
  /\ req[c].pc = "done"
  /\ req' = [req EXCEPT ![c] = Idle]
  /\ UNCHANGED <<users, posts, likes, seq, media, session, app>>

\* ----------------------------------------------------------- the history
\* obs follows a run of toggle_like requests by one user on one post with no
\* other request between them: n counts the toggles of the run that have
\* written (1, 2), base is the likes table the run started from.
NoRun == [user_id |-> 0, post_id |-> 0, n |-> 0, base |-> {}]

\* The step of client c seen by the history.
Observe(c) ==
  obs' =
    IF req[c].op = "toggle_like" /\ req[c].pc = "write"
    THEN IF /\ obs.n = 1
            /\ obs.user_id = session[c].user_id
            /\ obs.post_id = req[c].post_id
         THEN [obs EXCEPT !.n = 2]
         ELSE [user_id |-> session[c].user_id, post_id |-> req[c].post_id,
               n |-> 1, base |-> likes]
    ELSE IF req'[c].pc = "idle"
    THEN obs
    ELSE IF /\ req'[c].op = "toggle_like" /\ req'[c].pc \in {"has_liked", "write"}
            /\ session[c].user_id = obs.user_id
            /\ req'[c].post_id = obs.post_id
    THEN obs
    ELSE NoRun

\* No request is being handled.
Quiet == \A c \in Clients : ~InFlight(c)

\* ------------------------------------------------- likes and deletions
AdminRow ==
  [id |-> 1, username |-> ADMIN_USERNAME,
   password_hash |-> generate_password_hash(ADMIN_PASSWORD, "s1"), is_admin |-> TRUE]

AliceRow ==
  [id |-> 2, username |-> <<"a">>,
   password_hash |-> generate_password_hash(<<"p">>, "s1"), is_admin |-> FALSE]

SessionOf(u) == [user_id |-> u.id, username |-> u.username, is_admin |-> u.is_admin]

\* The ids of the posts uploaded before the requests looked at here.
SeedPostIds == {1, 2}

\* The post that alice's i-th upload, at time i, left behind.
UploadedPost(i) ==
  [id |-> i, user_id |-> 2,
   image_path |-> stored_filename(i, secure_filename(<<"a", ".", "p", "n", "g">>)),
   caption |-> <<>>, created_at |-> i]

\* After startup, alice's registration, some logins and her uploads.
InitLikes ==
  /\ users = {AdminRow, AliceRow}
  /\ posts = {UploadedPost(i) : i \in SeedPostIds}
  /\ likes = {}
  /\ seq = [users |-> 2, posts |-> Cardinality(SeedPostIds), likes |-> 0]
  /\ media = {UploadedPost(i).image_path : i \in SeedPostIds}
  /\ session \in [Clients -> {NoSession, SessionOf(AdminRow), SessionOf(AliceRow)}]
  /\ req = [c \in Clients |-> Idle]
  /\ app = [w \in Apps |-> "serving"]
  /\ obs = NoRun

\* The post ids a request may name: those ever given out and one never given.
PostIdInputs == 1..(Cardinality(SeedPostIds) + 1)

NextLikes ==
  \/ \E c \in Clients, p \in PostIdInputs : ToggleLikeStart(c, p) /\ UNCHANGED obs
  \/ \E c \in Clients : ToggleLikeRead(c) /\ UNCHANGED obs
  \/ \E c \in Clients : ToggleLikeWrite(c) /\ UNCHANGED obs
  \/ \E c \in Clients, p \in PostIdInputs : DeletePostStart(c, p) /\ UNCHANGED obs
  \/ \E c \in Clients : DeletePostRemove(c) /\ UNCHANGED obs
  \/ \E c \in Clients : DeletePostExists(c) /\ UNCHANGED obs
  \/ \E c \in Clients : DeletePostUnlink(c) /\ UNCHANGED obs
  \/ \E c \in Clients : Return(c) /\ UNCHANGED obs

\* Concurrent requests: any interleaving of the handlers' steps.
SpecLikes == InitLikes /\ [][NextLikes]_vars

\* One request at a time: a request starts only when none is being handled.
NextSerial ==
  \/ \E c \in Clients, p \in PostIdInputs :
        Quiet /\ ToggleLikeStart(c, p) /\ Observe(c)
  \/ \E c \in Clients : ToggleLikeRead(c) /\ Observe(c)
  \/ \E c \in Clients : ToggleLikeWrite(c) /\ Observe(c)
  \/ \E c \in Clients, p \in PostIdInputs :
        Quiet /\ DeletePostStart(c, p) /\ Observe(c)
  \/ \E c \in Clients : DeletePostRemove(c) /\ Observe(c)
  \/ \E c \in Clients : DeletePostExists(c) /\ Observe(c)
  \/ \E c \in Clients : DeletePostUnlink(c) /\ Observe(c)
  \/ \E c \in Clients : Return(c) /\ Observe(c)

SpecSerial == InitLikes /\ [][NextSerial]_vars

\* ----------------------------------------------------------------- upload
UploadsInFlight == {c \in Clients : req[c].op = "upload" /\ InFlight(c)}

\* Cap on posts.id (AUTOINCREMENT): the ids a request may name.
MaxPostId == Cardinality(PostIdInputs)

\* create_post: INSERT INTO posts (user_id, image_path, caption, created_at)
create_post(user_id, image_filename, caption, now) ==
  posts \cup {[id |-> seq.posts + 1, user_id |-> user_id,
                image_path |-> image_filename, caption |-> caption,
                created_at |-> now]}

\* upload without the login_required decorator.
UploadStart_noLoginRequired(c, image, caption_field) ==
  /\ Serving
  /\ req[c].pc = "idle"
  /\ IF image = {} \/ (CHOOSE f \in image : TRUE) = <<>>
     THEN req' = [req EXCEPT ![c] = Done("upload", "NoFile")]
     ELSE IF ~allowed_file(CHOOSE f \in image : TRUE)
     THEN req' = [req EXCEPT ![c] = Done("upload", "UnsupportedType")]
     ELSE /\ seq.posts + Cardinality(UploadsInFlight) < MaxPostId
          /\ req' = [req EXCEPT ![c] =
                       [Idle EXCEPT !.op = "upload", !.pc = "save",
                                    !.image_path =
                                       secure_filename(CHOOSE f \in image : TRUE),
                                    !.caption = strip(caption_field)]]
  /\ UNCHANGED <<users, posts, likes, seq, media, session, app>>

\* POST /upload: login_required, the caption, the two validations and
\* secure_filename (lines 159-176).  image is the set of file parts named
\* "image": none, or one with its filename.
UploadStart(c, image, caption_field) ==
  /\ Serving
  /\ req[c].pc = "idle"
  /\ IF ~LoggedIn(c)
     THEN req' = [req EXCEPT ![c] = Done("upload", "LoginRequired")]
     ELSE IF image = {} \/ (CHOOSE f \in image : TRUE) = <<>>
     THEN req' = [req EXCEPT ![c] = Done("upload", "NoFile")]
     ELSE IF ~allowed_file(CHOOSE f \in image : TRUE)
     THEN req' = [req EXCEPT ![c] = Done("upload", "UnsupportedType")]
     ELSE /\ seq.posts + Cardinality(UploadsInFlight) < MaxPostId
          /\ req' = [req EXCEPT ![c] =
                       [Idle EXCEPT !.op = "upload", !.pc = "save",
                                    !.image_path =
                                       secure_filename(CHOOSE f \in image : TRUE),
                                    !.caption = strip(caption_field)]]
  /\ UNCHANGED <<users, posts, likes, seq, media, session, app>>

\* The timestamp, the stored name and image.save (lines 177-180); now is the
\* clock's reading.  image.save writes the file, over a file of that name if
\* there is one.
UploadSave(c, now) ==
  /\ req[c].op = "upload" /\ req[c].pc = "save"
  /\ LET stored == stored_filename(now, req[c].image_path)
     IN /\ media' = media \cup {stored}
        /\ req' = [req EXCEPT ![c].pc = "create_post", ![c].image_path = stored]
  /\ UNCHANGED <<users, posts, likes, seq, session, app>>

\* create_post and the redirect to the feed (lines 183-190); now is the
\* clock's reading, not before the one the file name was stamped with.
UploadInsert(c, now) ==
  /\ req[c].op = "upload" /\ req[c].pc = "create_post"
  /\ now >= req[c].image_path[1]
  /\ posts' = create_post(session[c].user_id, req[c].image_path, req[c].caption, now)
  /\ seq' = Bump("posts", posts, posts')
  /\ req' = [req EXCEPT ![c] =
               [DoneOn("upload", "Uploaded", seq.posts + 1)
                  EXCEPT !.image_path = req[c].image_path]]
  /\ UNCHANGED <<users, likes, media, session, app>>

\* ------------------------------------------------- feed and leaderboard
\* get_user_liked_post_ids
get_user_liked_post_ids(user_id) == {l.post_id : l \in {k \in likes : k.user_id = user_id}}

\* format_posts_for_view (created_at stays the instant it is; display_time,
\* a rendering of it, is left out)
format_posts_for_view(rows, liked_ids) ==
  [i \in 1..Len(rows) |->
     [id |-> rows[i].id, image_path |-> rows[i].image_path,
      caption |-> rows[i].caption, username |-> rows[i].username,
      created_at |-> rows[i].created_at, like_count |-> rows[i].like_count,
      liked |-> rows[i].id \in liked_ids]]

\* GET /feed: login_required, then fetch_posts(sort="recent") (lines 84-89)
FeedStart(c) ==
  /\ Serving
  /\ req[c].pc = "idle"
  /\ IF ~LoggedIn(c)
     THEN req' = [req EXCEPT ![c] = Done("feed", "LoginRequired")]
     ELSE \E rows \in fetch_posts("recent") :
            req' = [req EXCEPT ![c] =
                      [Idle EXCEPT !.op = "feed", !.pc = "liked_ids",
                                   !.sort = "recent", !.raw_posts = rows]]
  /\ UNCHANGED <<users, posts, likes, seq, media, session, app>>

\* get_user_liked_post_ids, format_posts_for_view, the page (lines 90-92)
FeedLiked(c) ==
  /\ req[c].op = "feed" /\ req[c].pc = "liked_ids"
  /\ req' = [req EXCEPT ![c] =
               [Done("feed", "Page")
                  EXCEPT !.sort = req[c].sort,
                         !.raw_posts = req[c].raw_posts,
                         !.posts = format_posts_for_view(
                                      req[c].raw_posts,
                                      get_user_liked_post_ids(session[c].user_id))]]
  /\ UNCHANGED <<users, posts, likes, seq, media, session, app>>

\* GET /leaderboard: login_required, then fetch_posts(sort="likes")
\* (lines 94-98)
LeaderboardStart(c) ==
  /\ Serving
  /\ req[c].pc = "idle"
  /\ IF ~LoggedIn(c)
     THEN req' = [req EXCEPT ![c] = Done("leaderboard", "LoginRequired")]
     ELSE \E rows \in fetch_posts("likes") :
            req' = [req EXCEPT ![c] =
                      [Idle EXCEPT !.op = "leaderboard", !.pc = "liked_ids",
                                   !.sort = "likes", !.raw_posts = rows]]
  /\ UNCHANGED <<users, posts, likes, seq, media, session, app>>

\* get_user_liked_post_ids, format_posts_for_view, the page (lines 99-101)
LeaderboardLiked(c) ==
  /\ req[c].op = "leaderboard" /\ req[c].pc = "liked_ids"
  /\ req' = [req EXCEPT ![c] =
               [Done("leaderboard", "Page")
                  EXCEPT !.sort = req[c].sort,
                         !.raw_posts = req[c].raw_posts,
                         !.posts = format_posts_for_view(
                                      req[c].raw_posts,
                                      get_user_liked_post_ids(session[c].user_id))]]
  /\ UNCHANGED <<users, posts, likes, seq, media, session, app>>

\* GET /uploads/<filename>: login_required, send_from_directory
\* (lines 226-230)
UploadedFile(c, filename) ==
  /\ Serving
  /\ req[c].pc = "idle"
  /\ req' = [req EXCEPT ![c] =
               [Done("uploaded_file",
                     IF ~LoggedIn(c) THEN "LoginRequired"
                     ELSE IF filename \in media THEN "File" ELSE "NotFound")
                  EXCEPT !.image_path = filename]]
  /\ UNCHANGED <<users, posts, likes, seq, media, session, app>>

\* ---------------------------------------------------------- registration
\* What the registration form may carry.
UsernameInputs == {<<>>, <<" ">>, <<"a">>, <<" ", "a", " ">>, <<"A">>, ADMIN_USERNAME}
PasswordInputs == {<<>>, <<" ">>, <<"p">>}

\* Before the first create_app: an empty database file.
InitRegister ==
  /\ users = {} /\ posts = {} /\ likes = {} /\ media = {}
  /\ seq = [users |-> 0, posts |-> 0, likes |-> 0]
  /\ session = [c \in Clients |-> NoSession]
  /\ req = [c \in Clients |-> Idle]
  /\ app = [w \in Apps |-> "init"]
  /\ obs = NoRun

NextRegister ==
  \/ \E w \in Apps : CreateAppStart(w) /\ UNCHANGED obs
  \/ \E w \in Apps : CreateAppInsert(w) /\ UNCHANGED obs
  \/ \E c \in Clients, u \in UsernameInputs, p \in PasswordInputs :
        RegisterStart(c, u, p) /\ UNCHANGED obs
  \/ \E c \in Clients : RegisterInsert(c) /\ UNCHANGED obs
  \/ \E c \in Clients : Return(c) /\ UNCHANGED obs

SpecRegister == InitRegister /\ [][NextRegister]_vars

\* ------------------------------------------------------ accounts in use
\* After the first create_app: the admin row alone, nobody logged in.
InitAuth ==
  /\ users = {AdminRow}
  /\ posts = {} /\ likes = {} /\ media = {}
  /\ seq = [users |-> 1, posts |-> 0, likes |-> 0]
  /\ session = [c \in Clients |-> NoSession]
  /\ req = [c \in Clients |-> Idle]
  /\ app = [w \in Apps |-> "serving"]
  /\ obs = NoRun

NextAuth ==
  \/ \E c \in Clients, u \in UsernameInputs, p \in PasswordInputs :
        RegisterStart(c, u, p) /\ UNCHANGED obs
  \/ \E c \in Clients : RegisterInsert(c) /\ UNCHANGED obs
  \/ \E c \in Clients, u \in UsernameInputs, p \in PasswordInputs :
        Login(c, u, p) /\ UNCHANGED obs
  \/ \E c \in Clients : Logout(c) /\ UNCHANGED obs
  \/ \E c \in Clients : Return(c) /\ UNCHANGED obs

SpecAuth == InitAuth /\ [][NextAuth]_vars

\* ------------------------------------------------------------- listings
\* The values of sort fetch_posts is called with: the two of order_map and
\* one it does not know.
SortInputs == {"recent", "likes", "oldest"}

\* The Like row of a pair, numbered as if the pairs were liked in order.
LikeRow(user_id, post_id) ==
  [id |-> (user_id - 1) * Cardinality(PostIdInputs) + post_id,
   user_id |-> user_id, post_id |-> post_id]

\* Any store two users can have made with up to three uploads and their
\* likes: each post id absent (never uploaded, or deleted) or present with
\* any clock reading, each (user, post) pair liked or not (a Like row may
\* name a post that is gone).
InitList ==
  /\ users = {AdminRow, AliceRow}
  /\ \E created \in [PostIdInputs -> Instants \cup {-1}] :
       posts = {[UploadedPost(i) EXCEPT !.created_at = created[i]] :
                  i \in {j \in PostIdInputs : created[j] # -1}}
  /\ \E pairs \in SUBSET ({u.id : u \in {AdminRow, AliceRow}} \X PostIdInputs) :
       likes = {LikeRow(pr[1], pr[2]) : pr \in pairs}
  /\ seq = [users |-> 2, posts |-> Cardinality(PostIdInputs),
            likes |-> 2 * Cardinality(PostIdInputs)]
  /\ media = {p.image_path : p \in posts}
  /\ session = [c \in Clients |-> SessionOf(AliceRow)]
  /\ req = [c \in Clients |-> Idle]
  /\ app = [w \in Apps |-> "serving"]
  /\ obs = NoRun

NextList ==
  \/ \E c \in Clients, sort \in SortInputs : FetchPosts(c, sort) /\ UNCHANGED obs
  \/ \E c \in Clients : Return(c) /\ UNCHANGED obs

SpecList == InitList /\ [][NextList]_vars

\* ------------------------------------------------- uploads and deletions
\* What the upload form may carry as its file part: none, one with an empty
\* filename, and files with these names.
ImageInputs ==
  {{}, {<<>>}, {<<"a", ".", "p", "n", "g">>}, {<<"a", ".", "P", "N", "G">>},
   {<<"a", ".", "e", "x", "e">>}, {<<"p", "n", "g">>}, {<<".", "p", "n", "g">>},
   {<<"a", ".", "p", "n", "g", ".", "e", "x", "e">>}}

CaptionInputs == {<<" ", "a">>}

\* Concurrent uploads and deletions, the clock reading anything.
NextUpload ==
  \/ \E c \in Clients, image \in ImageInputs, caption \in CaptionInputs :
        UploadStart(c, image, caption) /\ UNCHANGED obs
  \/ \E c \in Clients, now \in Instants : UploadSave(c, now) /\ UNCHANGED obs
  \/ \E c \in Clients, now \in Instants : UploadInsert(c, now) /\ UNCHANGED obs
  \/ \E c \in Clients, p \in PostIdInputs : DeletePostStart(c, p) /\ UNCHANGED obs
  \/ \E c \in Clients : DeletePostRemove(c) /\ UNCHANGED obs
  \/ \E c \in Clients : DeletePostExists(c) /\ UNCHANGED obs
  \/ \E c \in Clients : DeletePostUnlink(c) /\ UNCHANGED obs
  \/ \E c \in Clients : Return(c) /\ UNCHANGED obs

SpecUpload == InitLikes /\ [][NextUpload]_vars

\* ---------------------------------------------------- listings and likes
\* As InitLikes; the history is, for each client, the likes table that the
\* first query of its listing request read.
InitFeed ==
  /\ users = {AdminRow, AliceRow}
  /\ posts = {UploadedPost(i) : i \in SeedPostIds}
  /\ likes = {}
  /\ seq = [users |-> 2, posts |-> Cardinality(SeedPostIds), likes |-> 0]
  /\ media = {UploadedPost(i).image_path : i \in SeedPostIds}
  /\ session \in [Clients -> {NoSession, SessionOf(AdminRow), SessionOf(AliceRow)}]
  /\ req = [c \in Clients |-> Idle]
  /\ app = [w \in Apps |-> "serving"]
  /\ obs = [c \in Clients |-> {}]

\* The history of a listing: the likes table at its first query, kept until
\* the client's next request.
ObserveListing(c) ==
  obs' = [obs EXCEPT ![c] = IF req[c].pc = "idle" THEN likes ELSE @]

\* Listings concurrent with toggle_like requests.
NextFeed ==
  \/ \E c \in Clients : FeedStart(c) /\ ObserveListing(c)
  \/ \E c \in Clients : FeedLiked(c) /\ UNCHANGED obs
  \/ \E c \in Clients : LeaderboardStart(c) /\ ObserveListing(c)
  \/ \E c \in Clients : LeaderboardLiked(c) /\ UNCHANGED obs
  \/ \E c \in Clients, p \in SeedPostIds : ToggleLikeStart(c, p) /\ ObserveListing(c)
  \/ \E c \in Clients : ToggleLikeRead(c) /\ UNCHANGED obs
  \/ \E c \in Clients : ToggleLikeWrite(c) /\ UNCHANGED obs
  \/ \E c \in Clients : Return(c) /\ UNCHANGED obs

SpecFeed == InitFeed /\ [][NextFeed]_vars

\* ------------------------------------------------------- the whole site
\* The login forms: alice's credentials, the admin's, and a wrong password.
LoginInputs ==
  {<<AliceRow.username, <<"p">>>>, <<ADMIN_USERNAME, ADMIN_PASSWORD>>,
   <<AliceRow.username, <<" ">>>>}

\* The media names a download may ask for: those of the seed posts and one
\* that no upload stored.
MediaInputs == {UploadedPost(i).image_path : i \in SeedPostIds} \cup {<<"a">>}

\* The file parts and the post ids used when the whole site is looked at: no
\* file, a refused and an accepted name; the first post and the id the next
\* upload gets.
SiteImageInputs == {{}, {<<"a", ".", "e", "x", "e">>}, {<<"a", ".", "p", "n", "g">>}}
SitePostIdInputs == {1, MaxPostId}

\* After startup, alice's registration and her uploads; nobody logged in.
InitSite ==
  /\ users = {AdminRow, AliceRow}
  /\ posts = {UploadedPost(i) : i \in SeedPostIds}
  /\ likes = {}
  /\ seq = [users |-> 2, posts |-> Cardinality(SeedPostIds), likes |-> 0]
  /\ media = {UploadedPost(i).image_path : i \in SeedPostIds}
  /\ session = [c \in Clients |-> NoSession]
  /\ req = [c \in Clients |-> Idle]
  /\ app = [w \in Apps |-> "serving"]
  /\ obs = [c \in Clients |-> "new"]

\* Every other client has received its response and sent nothing since.
Alone(c) == \A d \in Clients \ {c} : req[d].pc = "idle"

\* The history of the site: whether the session of each client has never
\* been logged in ("new"), is logged in ("in"), or was and is no more ("out").
ObserveSession(c) ==
  obs' = [obs EXCEPT ![c] = IF LoggedIn(c)' THEN "in"
                            ELSE IF @ = "new" THEN "new" ELSE "out"]

\* All the handlers, one request at a time.
NextSite ==
  \/ \E c \in Clients, f \in LoginInputs :
        Alone(c) /\ Login(c, f[1], f[2]) /\ ObserveSession(c)
  \/ \E c \in Clients : Alone(c) /\ Logout(c) /\ ObserveSession(c)
  \/ \E c \in Clients, image \in SiteImageInputs, caption \in CaptionInputs :
        Alone(c) /\ UploadStart(c, image, caption) /\ UNCHANGED obs
  \/ \E c \in Clients : UploadSave(c, MicrosPerSecond) /\ UNCHANGED obs
  \/ \E c \in Clients : UploadInsert(c, MicrosPerSecond) /\ UNCHANGED obs
  \/ \E c \in Clients, p \in SitePostIdInputs :
        Alone(c) /\ ToggleLikeStart(c, p) /\ UNCHANGED obs
  \/ \E c \in Clients : ToggleLikeRead(c) /\ UNCHANGED obs
  \/ \E c \in Clients : ToggleLikeWrite(c) /\ UNCHANGED obs
  \/ \E c \in Clients, p \in SitePostIdInputs :
        Alone(c) /\ DeletePostStart(c, p) /\ UNCHANGED obs
  \/ \E c \in Clients : DeletePostRemove(c) /\ UNCHANGED obs
  \/ \E c \in Clients : DeletePostExists(c) /\ UNCHANGED obs
  \/ \E c \in Clients : DeletePostUnlink(c) /\ UNCHANGED obs
  \/ \E c \in Clients : Alone(c) /\ FeedStart(c) /\ UNCHANGED obs
  \/ \E c \in Clients : FeedLiked(c) /\ UNCHANGED obs
  \/ \E c \in Clients : Alone(c) /\ LeaderboardStart(c) /\ UNCHANGED obs
  \/ \E c \in Clients : LeaderboardLiked(c) /\ UNCHANGED obs
  \/ \E c \in Clients, f \in MediaInputs :
        Alone(c) /\ UploadedFile(c, f) /\ UNCHANGED obs
  \/ \E c \in Clients : Return(c) /\ UNCHANGED obs

SpecSite == InitSite /\ [][NextSite]_vars

\* ============================================================ properties
\* The operations behind login_required.
ProtectedOps ==
  {"feed", "leaderboard", "upload", "toggle_like", "delete_post", "uploaded_file"}

\* Client c sends a request for one of ops in this step.
Sends(c, ops) == req[c].pc = "idle" /\ req'[c].op \in ops

LikesOfPair(user_id, post_id) ==
  {l \in likes : l.user_id = user_id /\ l.post_id = post_id}

\* Two clients of one user whose toggle_like requests on one post both read
\* "not liked" and both have written.
BothInsertedAfterRace(c, d) ==
  /\ c # d
  /\ session[c].user_id = session[d].user_id
  /\ req[c].op = "toggle_like" /\ req[c].pc = "done" /\ req[c].outcome # "NotFound"
  /\ req[d].op = "toggle_like" /\ req[d].pc = "done" /\ req[d].outcome # "NotFound"
  /\ LoggedIn(c)
  /\ req[c].post_id = req[d].post_id
  /\ ~req[c].liked /\ ~req[d].liked

\* C1: in every reachable state, whatever the interleaving of the steps of
\* concurrent toggle_like requests, the likes table holds at most one row for
\* each (user id, post id) pair.
C1_AtMostOneLikePerPair ==
  \A l1, l2 \in likes :
     (l1.user_id = l2.user_id /\ l1.post_id = l2.post_id) => l1 = l2

\* C1, its case: two requests of one user on one post raced past the
\* membership read, both wrote, and the pair has its one row.
C1_Witness ==
  \E c, d \in Clients :
     /\ BothInsertedAfterRace(c, d)
     /\ Cardinality(LikesOfPair(session[c].user_id, req[c].post_id)) = 1

\* The ids of the posts delete_post has removed (posts.id is AUTOINCREMENT:
\* an id is given once).
DeletedPostIds == {i \in 1..seq.posts : \A q \in posts : q.id # i}

\* C2 as claimed: every Like row references a Post row that exists, and no
\* Like row names a post that delete_post has removed (also while a
\* toggle_like is interleaved with the delete_post of its post).
C2_LikesReferenceExistingPosts ==
  \A l \in likes :
     /\ \E p \in posts : p.id = l.post_id
     /\ l.post_id \notin DeletedPostIds

\* What list_posts returns, in either order.
ListedIds(sort) == {s[i].id : s \in fetch_posts(sort), i \in 1..Cardinality(PostViews)}

\* C3: a delete_post request from a session whose admin flag is false, or
\* from no session, ends at the guard: it is answered with the denial, and
\* the posts, the likes, the media and what list_posts returns are unchanged.
C3_NonAdminDeleteDenied ==
  [][\A c \in Clients, p \in PostIdInputs :
       (DeletePostStart(c, p) /\ ~session[c].is_admin) =>
          /\ req'[c].pc = "done"
          /\ req'[c].outcome = (IF LoggedIn(c) THEN "Forbidden" ELSE "LoginRequired")
          /\ posts' = posts /\ likes' = likes /\ media' = media /\ users' = users
          /\ fetch_posts("recent")' = fetch_posts("recent")
          /\ fetch_posts("likes")' = fetch_posts("likes")]_vars

\* C3, its case: a logged-in non-admin and an anonymous client have both been
\* denied the deletion of a post that is still listed, with its file.
C3_Witness ==
  \E c, d \in Clients :
     /\ req[c].op = "delete_post" /\ req[c].outcome = "Forbidden"
     /\ req[d].op = "delete_post" /\ req[d].outcome = "LoginRequired"
     /\ req[c].post_id \in ListedIds("recent")
     /\ \E q \in posts : q.id = req[c].post_id /\ q.image_path \in media

\* C4: with one request handled at a time, a post that delete_post removed
\* is in neither listing and no Like row names it, and a toggle_like on its
\* id answers NotFound and leaves the likes table as it was.
C4_DeletedPostGone ==
  [][/\ \A p \in DeletedPostIds' :
           /\ p \notin ListedIds("recent")'
           /\ p \notin ListedIds("likes")'
           /\ LikesOf(p)' = {}
     /\ \A c \in Clients, p \in PostIdInputs :
           (ToggleLikeStart(c, p) /\ LoggedIn(c) /\ p \in DeletedPostIds) =>
              /\ req'[c].pc = "done" /\ req'[c].outcome = "NotFound"
              /\ likes' = likes]_vars

\* C4, its case: an admin's delete_post of a liked post has completed and a
\* later toggle_like on that id was answered NotFound.
C4_Witness ==
  \E c, d \in Clients :
     /\ req[c].op = "toggle_like" /\ req[c].outcome = "NotFound"
     /\ req[c].post_id \in DeletedPostIds
     /\ req[d].op = "delete_post" /\ req[d].outcome = "Deleted"
     /\ req[d].post_id = req[c].post_id
     /\ seq.likes > 0

LikeCountIn(rows, post_id) == Cardinality({l \in rows : l.post_id = post_id})

\* The like_count list_posts reports for a post is n, in every listing.
ReportsLikeCount(post_id, n) ==
  \A sort \in {"recent", "likes"} :
     /\ post_id \in ListedIds(sort)
     /\ \A s \in fetch_posts(sort) :
           \A i \in 1..Len(s) : s[i].id = post_id => s[i].like_count = n

\* C5: with one request handled at a time, from a likes table with no row
\* for (u, p): after one toggle_like(u, p) the table is the old one plus
\* exactly one row for (u, p) and the reported like_count is one higher;
\* after the second consecutive toggle_like(u, p) the table is the old one
\* again and the reported like_count is back.
C5_ToggleTwiceRestores ==
  (obs.n > 0 /\ \A l \in obs.base : ~(l.user_id = obs.user_id /\ l.post_id = obs.post_id)) =>
     LET mine == LikesOfPair(obs.user_id, obs.post_id)
         before == LikeCountIn(obs.base, obs.post_id)
     IN IF obs.n = 1
        THEN /\ Cardinality(mine) = 1
             /\ likes = obs.base \cup mine
             /\ ReportsLikeCount(obs.post_id, before + 1)
        ELSE /\ mine = {}
             /\ likes = obs.base
             /\ ReportsLikeCount(obs.post_id, before)

\* C5, its case: two consecutive toggles of a pair that had no row, made
\* while the user likes another post.
C5_Witness ==
  /\ obs.n = 2
  /\ \A l \in obs.base : ~(l.user_id = obs.user_id /\ l.post_id = obs.post_id)
  /\ \E l \in obs.base : l.user_id = obs.user_id

\* C6: an add_like of a pair that is not liked according to the request's
\* read never ends in an error; when the row is there already (the other
\* request of the race inserted it) the insert changes nothing; either way
\* the pair then has exactly one row.
C6_DuplicateInsertIsNoOp ==
  [][\A c \in Clients :
       (ToggleLikeWrite(c) /\ ~req[c].liked) =>
          /\ req'[c].pc = "done" /\ req'[c].outcome = "Redirect"
          /\ (user_has_liked(session[c].user_id, req[c].post_id) =>
                likes' = likes /\ seq' = seq)
          /\ Cardinality(LikesOfPair(session[c].user_id, req[c].post_id)') = 1]_vars

\* C6, its case: both requests of the race have been answered with the
\* redirect and the table holds the single row the first insert made.
C6_Witness ==
  \E c, d \in Clients :
     /\ BothInsertedAfterRace(c, d)
     /\ req[c].outcome = "Redirect" /\ req[d].outcome = "Redirect"
     /\ seq.likes = 1
     /\ likes = {[id |-> 1, user_id |-> session[c].user_id, post_id |-> req[c].post_id]}

C8_UsernamesUnique ==
  \A u1, u2 \in users : u1.username = u2.username => u1 = u2

\* C8, its case: two register requests for one username both passed
\* user_exists; one inserted, the store refused the other; and a second
\* create_app lost the race for the admin row.
C8_Witness ==
  /\ \E c, d \in Clients :
        /\ req[c].op = "register" /\ req[c].outcome = "Registered"
        /\ req[d].op = "register" /\ req[d].outcome = "ServerError"
        /\ req[c].username = req[d].username
  /\ \E w \in Apps : app[w] = "crashed"

\* C9 as claimed: a register whose username is taken when it inserts ends
\* with DuplicateUsername, never with an unhandled store error.
C9_TakenAtInsertIsDuplicate ==
  [][\A c \in Clients :
       (RegisterInsert(c) /\ user_exists(req[c].username)) =>
          req'[c].outcome = "DuplicateUsername"]_vars

\* C10 as claimed: a register whose username or password is empty after
\* trimming whitespace fails at the validation and creates no user row: no
\* such request is past the validation, and no registered row has a password
\* that trims to nothing.
C10_EmptyAfterTrimRejected ==
  /\ \A c \in Clients :
        (req[c].op = "register" /\ req[c].pc = "create_user") =>
           (strip(req[c].username) # <<>> /\ strip(req[c].password) # <<>>)
  /\ \A u \in users, p \in PasswordInputs :
        (~u.is_admin /\ check_password_hash(u.password_hash, p)) => strip(p) # <<>>

\* C10 as the code has it: a register whose username is empty after trimming
\* or whose password is empty as sent is answered InvalidInput and changes no
\* table; the password is not trimmed, so a password of whitespace only passes
\* the validation and, the username being free, goes on to create_user.
C10_EmptyRejectedPasswordUntrimmed ==
  [][\A c \in Clients :
       Sends(c, {"register"}) =>
          \A u \in UsernameInputs, p \in PasswordInputs :
             RegisterStart(c, u, p) =>
                /\ (strip(u) = <<>> \/ p = <<>>) =>
                      /\ req'[c].pc = "done" /\ req'[c].outcome = "InvalidInput"
                      /\ users' = users /\ seq' = seq
                /\ (strip(u) # <<>> /\ p # <<>>) => req'[c].outcome # "InvalidInput"
                /\ (strip(u) # <<>> /\ p # <<>> /\ ~user_exists(strip(u))) =>
                      /\ req'[c].pc = "create_user"
                      /\ req'[c].password = p]_vars

\* C10, its case: one form was refused as invalid, and a user registered
\* with the password " " has a row.
C10_Witness ==
  /\ \E c \in Clients : req[c].op = "register" /\ req[c].outcome = "InvalidInput"
  /\ \E u \in users : ~u.is_admin /\ check_password_hash(u.password_hash, <<" ">>)

\* C11: a register form with a username that is non-empty once stripped and
\* not taken, and a non-empty password, goes on to create_user with the
\* stripped username and the password as sent; create_user adds exactly one
\* row, non-admin, with that username and a hash of that password under a
\* fresh id; and a login with a form that strips to a registered row's
\* username and carries its password is answered LoggedIn with the session
\* holding the id, the username and the (false) admin flag of that very row.
C11_RegisterThenLogin ==
  [][/\ \A c \in Clients :
           Sends(c, {"register"}) =>
              \A u \in UsernameInputs, p \in PasswordInputs :
                 (/\ strip(u) # <<>> /\ p # <<>> /\ ~user_exists(strip(u))
                  /\ RegisterStart(c, u, p)) =>
                    /\ req'[c].pc = "create_user"
                    /\ req'[c].username = strip(u) /\ req'[c].password = p
     /\ \A c \in Clients :
           (/\ req[c].pc = "create_user" /\ ~user_exists(req[c].username)
            /\ RegisterInsert(c)) =>
              /\ req'[c].outcome = "Registered"
              /\ \E r \in users' :
                    /\ users' = users \cup {r}
                    /\ \A u \in users : u.id # r.id
                    /\ r.username = req[c].username
                    /\ check_password_hash(r.password_hash, req[c].password)
                    /\ ~r.is_admin
     /\ \A c \in Clients :
           Sends(c, {"login"}) =>
              \A u \in UsernameInputs, p \in PasswordInputs, r \in users :
                 (/\ ~r.is_admin /\ r.username = strip(u)
                  /\ check_password_hash(r.password_hash, p)
                  /\ Login(c, u, p)) =>
                    /\ req'[c].pc = "done" /\ req'[c].outcome = "LoggedIn"
                    /\ session'[c] = SessionOf(r)
                    /\ session'[c].is_admin = FALSE]_vars

\* C11, its case: a user registered with the password " " and then logged
\* in with the same credentials; the session is that of the registered row.
C11_Witness ==
  \E c \in Clients, r \in users :
     /\ ~r.is_admin /\ r.id = seq.users
     /\ req[c].op = "login" /\ req[c].outcome = "LoggedIn"
     /\ req[c].username = r.username
     /\ check_password_hash(r.password_hash, <<" ">>)
     /\ session[c] = SessionOf(r)

\* C12: once a create_app has completed there is exactly one user row with
\* the admin flag, in every state from then on: the rows register adds are
\* non-admin, and no step removes a user row or changes one.
C12_ExactlyOneAdmin ==
  [][/\ Serving' => Cardinality({u \in users' : u.is_admin}) = 1
     /\ Serving => users \subseteq users'
     /\ \A c \in Clients :
           (req[c].pc = "create_user" /\ RegisterInsert(c)) =>
              \A u \in users' \ users : ~u.is_admin]_vars

\* C12, its case: two create_app raced for the admin row (one lost and
\* ended), users have registered since, and a form asking for the admin's
\* username was refused.
C12_Witness ==
  /\ Serving
  /\ \E w \in Apps : app[w] = "crashed"
  /\ Cardinality({u \in users : ~u.is_admin}) = 2
  /\ \E c \in Clients :
        /\ req[c].op = "register" /\ req[c].outcome = "DuplicateUsername"
        /\ req[c].username = ADMIN_USERNAME

\* C13: for every store, fetch_posts with sort "likes" returns every post in
\* the store exactly once (the empty sequence when there is none), each with
\* the number of its Like rows, and for a row a listed before a row b,
\* like_count(a) > like_count(b), or the counts are equal and a was created
\* no earlier than b; with a sort it does not know it returns what "recent"
\* may return, newest first.
C13_ByLikesOrdered ==
  \A c \in Clients :
     (req[c].op = "fetch_posts" /\ req[c].pc = "done") =>
        LET s == req[c].raw_posts
        IN /\ Len(s) = Cardinality(posts)
           /\ {s[i].id : i \in 1..Len(s)} = {p.id : p \in posts}
           /\ \A i \in 1..Len(s) :
                 /\ s[i].like_count = Cardinality(LikesOf(s[i].id))
                 /\ \E p \in posts : p.id = s[i].id /\ p.created_at = s[i].created_at
           /\ req[c].sort = "likes" =>
                 \A i, j \in 1..Len(s) :
                    i < j =>
                       \/ s[i].like_count > s[j].like_count
                       \/ /\ s[i].like_count = s[j].like_count
                          /\ s[i].created_at >= s[j].created_at
           /\ req[c].sort \notin {"likes", "recent"} =>
                 /\ s \in fetch_posts("recent")
                 /\ \A i, j \in 1..Len(s) : i < j => s[i].created_at >= s[j].created_at

\* C13, its case: a listing by likes of three posts in which a post with
\* more likes comes before an older and a newer one, two posts with equal
\* counts come newest first (one stamped on the full second, one within it),
\* and another call with an unknown sort has listed the same store.
C13_Witness ==
  \E c, d \in Clients :
     /\ req[c].op = "fetch_posts" /\ req[c].pc = "done" /\ req[c].sort = "likes"
     /\ req[d].op = "fetch_posts" /\ req[d].pc = "done" /\ req[d].sort = "oldest"
     /\ Len(req[c].raw_posts) = 3
     /\ LET s == req[c].raw_posts
        IN /\ s[1].like_count > s[2].like_count
           /\ s[2].like_count = s[3].like_count
           /\ s[1].created_at < s[2].created_at
           /\ s[2].created_at > s[3].created_at
           /\ s[2].created_at % MicrosPerSecond # 0
           /\ s[3].created_at % MicrosPerSecond = 0
           /\ s[2].created_at \div MicrosPerSecond = s[3].created_at \div MicrosPerSecond
     /\ req[d].raw_posts # req[c].raw_posts

\* C14: an upload, toggle_like or delete_post request from a client with no
\* user id in its session is answered at the guard (LoginRequired) in the
\* step it arrives, with the users, the posts, the likes, the id sequences
\* and the media as they were, whatever requests came before.
C14_GuardBeforeOperation ==
  [][\A c \in Clients :
       (Sends(c, {"upload", "toggle_like", "delete_post"}) /\ ~LoggedIn(c)) =>
          /\ req'[c].pc = "done" /\ req'[c].outcome = "LoginRequired"
          /\ users' = users /\ posts' = posts /\ likes' = likes
          /\ media' = media /\ seq' = seq]_vars

\* C14, its case: after an upload, likes and a deletion by logged-in users,
\* a client that has logged out asked to upload an acceptable file and was
\* sent to the login page.
C14_Witness ==
  \E c \in Clients :
     /\ obs[c] = "out"
     /\ req[c].op = "upload" /\ req[c].outcome = "LoginRequired"
     /\ seq.posts = MaxPostId /\ seq.likes > 0 /\ DeletedPostIds # {}
     /\ Cardinality(media) = Cardinality(posts)

\* C17: a logout leaves the session with no user id, no username and no
\* admin flag; a request for a protected operation from a session with no
\* user id is answered LoginRequired, with no listing and no change to the
\* store; a session comes to hold a user id only by a login whose form names
\* a user row and carries its password; and after a successful login the
\* session holds the id, the username and the admin flag of that row and
\* nothing of what it held before.
C17_LogoutThenDenied ==
  [][\A c \in Clients :
       /\ Sends(c, {"logout"}) => session'[c] = NoSession
       /\ (Sends(c, ProtectedOps) /\ ~LoggedIn(c)) =>
             /\ req'[c].pc = "done" /\ req'[c].outcome = "LoginRequired"
             /\ req'[c].posts = <<>> /\ req'[c].raw_posts = <<>>
             /\ session'[c] = session[c]
             /\ users' = users /\ posts' = posts /\ likes' = likes
             /\ media' = media
       /\ (session'[c] # session[c] /\ LoggedIn(c)') =>
             \E f \in LoginInputs, u \in users :
                /\ Login(c, f[1], f[2])
                /\ req'[c].outcome = "LoggedIn"
                /\ u.username = strip(f[1])
                /\ check_password_hash(u.password_hash, f[2])
                /\ session'[c] = SessionOf(u)
       /\ (Sends(c, {"login"}) /\ req'[c].outcome # "LoggedIn") =>
             session'[c] = session[c]]_vars

\* C17, its case: a client that was logged in and has logged out was refused
\* the download of a file that is in the upload folder, while the other
\* client's session is the admin's.
C17_Witness ==
  \E c, d \in Clients :
     /\ obs[c] = "out" /\ session[c] = NoSession
     /\ req[c].op = "uploaded_file" /\ req[c].outcome = "LoginRequired"
     /\ req[c].image_path \in media
     /\ session[d] = SessionOf(AdminRow)

\* The file parts that fail upload's validation: no file part, an empty
\* filename, a suffix that is no image type, no suffix at all, an image type
\* that is not the last suffix.
RefusedImages ==
  {{}, {<<>>}, {<<"a", ".", "e", "x", "e">>}, {<<"p", "n", "g">>},
   {<<"a", ".", "p", "n", "g", ".", "e", "x", "e">>}}

\* C15: an upload by a logged-in user whose file part fails validation (no
\* file, an empty filename, a suffix outside the allowed set) is answered in
\* that step with the validation message and changes nothing: no post row,
\* no media file, no id used; the suffix is compared without regard to case,
\* so "a.PNG" is not refused and goes on to be saved.
C15_InvalidUploadMutatesNothing ==
  [][\A c \in Clients :
       (Sends(c, {"upload"}) /\ LoggedIn(c)) =>
          \A image \in ImageInputs, caption \in CaptionInputs :
             UploadStart(c, image, caption) =>
                IF image \in RefusedImages
                THEN /\ req'[c].pc = "done"
                     /\ req'[c].outcome =
                           (IF image \in {{}, {<<>>}} THEN "NoFile"
                            ELSE "UnsupportedType")
                     /\ posts' = posts /\ media' = media /\ seq' = seq
                     /\ users' = users /\ likes' = likes /\ session' = session
                ELSE req'[c].pc = "save"]_vars

\* C15, its case: one logged-in client's upload was refused for its type
\* while the other's "a.PNG" was stored and posted; the store holds that one
\* new post and its file, nothing of the refused upload.
C15_Witness ==
  \E c, d \in Clients :
     /\ LoggedIn(c)
     /\ req[c].op = "upload" /\ req[c].outcome = "UnsupportedType"
     /\ req[d].op = "upload" /\ req[d].outcome = "Uploaded"
     /\ \E i \in 3..Len(req[d].image_path) : req[d].image_path[i] = "P"
     /\ req[d].image_path \in media
     /\ Cardinality(posts) = Cardinality(SeedPostIds) + 1
     /\ Cardinality(media) = Cardinality(SeedPostIds) + 1

C18_PageFromOneState ==
  \A c \in Clients :
     (req[c].op \in {"feed", "leaderboard"} /\ req[c].outcome = "Page") =>
        \A i \in 1..Len(req[c].posts) :
           LET v == req[c].posts[i]
           IN /\ v.liked => v.like_count >= 1
              /\ v.liked <=> \E l \in obs[c] : /\ l.user_id = session[c].user_id
                                               /\ l.post_id = v.id

====
